---- MODULE Spec2Model ----
(***************************************************************************)
(* A model of createExtensionBlueprint                                     *)
(* (packages/frontend-plugin-api/src/wiring/createExtensionBlueprint.ts).  *)
(*                                                                         *)
(* A blueprint is the closure over `options`.  Its two operations, make    *)
(* and makeWithOverrides, each build one declaration and hand it to        *)
(* createExtension.  The factory closure of a declaration is run later by  *)
(* the framework with a runtime context.                                   *)
(*                                                                         *)
(* JavaScript values are modelled as follows.  `undefined` in a string or  *)
(* boolean position is the string Undef; booleans are the strings "true"   *)
(* and "false" (so that a field can hold either a boolean or undefined).   *)
(* Objects (the inputs map, the output array, the config object and its    *)
(* schema map) live in `heap`, a map from addresses to objects, and a      *)
(* field holding an object holds its address: two fields alias iff they    *)
(* hold the same address.                                                  *)
(***************************************************************************)
EXTENDS Naturals, Sequences, FiniteSets, TLC

VARIABLES
  options,  \* the options object captured by the blueprint's closures
  heap,     \* address -> object
  call,     \* the latest call on the blueprint: its name and its args object
  decl,     \* the declaration that call handed to createExtension
  run       \* what the latest run of decl.factory did

vars == <<options, heap, call, decl, run>>

-----------------------------------------------------------------------------
(* Bounds and value universes *)

MaxParams == 2

Undef == "undefined"

\* params objects such as {n: 1}; NoObj is `undefined` in an object position
NoObj == [t |-> "undefined"]
Params == {[t |-> "params", n |-> i] : i \in 1..MaxParams}

MapObj(m) == [t |-> "map", m |-> m]
ListObj(l) == [t |-> "list", l |-> l]
ConfigObj(schemaAddr) == [t |-> "config", schema |-> schemaAddr]

EmptyMap == [k \in {} |-> Undef]

Kinds == {"page", "nav-item"}
BaseInputNames == {"a", "b"}
ConfigKeys == {"foo", "bar"}

\* the objects owned by the blueprint, by the caller's arguments of the
\* latest call, and created by the latest call
BlueprintAddrs ==
  {"options.inputs", "options.output", "options.config", "options.config.schema"}
ArgAddrs == {"args.inputs", "args.output", "args.config", "args.config.schema"}
NewAddrs == {"new.inputs", "new.config", "new.config.schema"}
Addrs == BlueprintAddrs \cup ArgAddrs \cup NewAddrs

-----------------------------------------------------------------------------
(* JavaScript operators used by the source *)

\* a ?? b
Coalesce(a, b) == IF a = Undef THEN b ELSE a

\* the object at an address; dereferencing undefined yields undefined (`?.`)
Deref(h, ref) == IF ref = Undef THEN NoObj ELSE h[ref]

\* the own enumerable entries `...obj` contributes; spreading undefined
\* contributes nothing
Spread(obj) == IF obj.t = "map" THEN obj.m ELSE EmptyMap

\* { ...first, ...second }: on a shared key the later spread wins
SpreadMerge(first, second) ==
  [k \in (DOMAIN first) \cup (DOMAIN second) |->
     IF k \in DOMAIN second THEN second[k] ELSE first[k]]

\* obj?.schema, dereferenced
SchemaOf(h, configRef) ==
  IF configRef = Undef THEN NoObj ELSE h[h[configRef].schema]

-----------------------------------------------------------------------------
(* createExtensionBlueprint(options): the blueprints and their arguments *)

Free == [t |-> "free"]

\* the maps with keys among `keys`, every entry holding `v`
MapsOver(keys, v) == {[k \in S |-> v] : S \in SUBSET keys}

\* inputs?: TInputs, and config?: { schema: TConfigSchema }
BaseInputs == {NoObj} \cup {MapObj(m) : m \in MapsOver(BaseInputNames, "baseSlot")}
BaseSchemas == {NoObj} \cup {MapObj(m) : m \in MapsOver(ConfigKeys, "baseSchema")}
\* output: Array<UOutput>
BaseOutputs == {ListObj(<<"X">>)}

RefIf(obj, addr) == IF obj = NoObj THEN Undef ELSE addr

\* the options object and the objects it references
BlueprintOptions(kind, namespace, name, disabled, inputs, schema) ==
  [kind |-> kind, namespace |-> namespace, name |-> name,
   attachTo |-> "app/nav#items", disabled |-> disabled,
   inputs |-> RefIf(inputs, "options.inputs"),
   output |-> "options.output",
   config |-> RefIf(schema, "options.config")]

BlueprintHeap(inputs, output, schema) ==
  [a \in Addrs |->
     CASE a = "options.inputs" /\ inputs # NoObj -> inputs
       [] a = "options.output" -> output
       [] a = "options.config" /\ schema # NoObj -> ConfigObj("options.config.schema")
       [] a = "options.config.schema" /\ schema # NoObj -> schema
       [] OTHER -> Free]

NoDecl ==
  [kind |-> Undef, namespace |-> Undef, name |-> Undef, attachTo |-> Undef,
   disabled |-> Undef, inputs |-> Undef, output |-> Undef, config |-> Undef,
   factory |-> [via |-> Undef, params |-> NoObj]]

NoCall == [op |-> Undef, args |-> NoObj]

NoRun ==
  [ran |-> FALSE, context |-> NoObj, innerParams |-> NoObj, innerContext |-> NoObj,
   baseParams |-> NoObj, baseContext |-> NoObj, declared |-> Undef, out |-> <<>>]

\* the options a blueprint is constructed from, objects by value; `schema`
\* stands for options.config.schema, NoObj for an absent options.config
AllBlueprints ==
  [kind : Kinds, namespace : {Undef, "ns0"}, name : {Undef, "n0"},
   disabled : {Undef, "true", "false"},
   inputs : BaseInputs, output : BaseOutputs, schema : BaseSchemas]

PlainIds(b) == b.namespace = Undef /\ b.name = Undef /\ b.disabled = Undef
PlainObjects(b) == b.inputs = NoObj /\ b.schema = NoObj

\* every combination of the identity fields, and every combination of the
\* declared objects
Blueprints ==
  {b \in AllBlueprints : (PlainIds(b) /\ b.kind = "page") \/ PlainObjects(b)}

createExtensionBlueprint(b) ==
  /\ options = BlueprintOptions(b.kind, b.namespace, b.name, b.disabled,
                                b.inputs, b.schema)
  /\ heap = BlueprintHeap(b.inputs, b.output, b.schema)
  /\ call = NoCall
  /\ decl = NoDecl
  /\ run = NoRun

Init == \E b \in Blueprints : createExtensionBlueprint(b)

-----------------------------------------------------------------------------
(* make(args) *)

MakeArgs ==
  [namespace : {Undef, "ns1"}, name : {Undef, "n1"},
   attachTo : {Undef, "app/routes#routes"}, disabled : {Undef, "true", "false"},
   params : Params]

\* a || b: unlike ??, false falls through to b
Or(a, b) == IF a = Undef \/ a = "false" THEN b ELSE a

\* make with `disabled: args.disabled || options.disabled`
makeDeclarationOr(o, args) ==
  [kind |-> o.kind,
   namespace |-> Coalesce(args.namespace, o.namespace),
   name |-> Coalesce(args.name, o.name),
   attachTo |-> Coalesce(args.attachTo, o.attachTo),
   disabled |-> Or(args.disabled, o.disabled),
   inputs |-> o.inputs,
   output |-> o.output,
   config |-> o.config,
   factory |-> [via |-> "make", params |-> args.params]]

\* the argument of createExtension in make
makeDeclaration(o, args) ==
  [kind |-> o.kind,
   namespace |-> Coalesce(args.namespace, o.namespace),
   name |-> Coalesce(args.name, o.name),
   attachTo |-> Coalesce(args.attachTo, o.attachTo),
   disabled |-> Coalesce(args.disabled, o.disabled),
   inputs |-> o.inputs,
   output |-> o.output,
   config |-> o.config,
   factory |-> [via |-> "make", params |-> args.params]]

\* the heap after a call: the argument objects and the objects created by
\* the previous call are no longer referenced by the latest declaration
Release(h) == [a \in Addrs |-> IF a \in BlueprintAddrs THEN h[a] ELSE Free]

make(args) ==
  /\ call' = [op |-> "make", args |-> args]
  /\ decl' = makeDeclaration(options, args)
  /\ heap' = Release(heap)
  /\ run' = NoRun
  /\ UNCHANGED options

-----------------------------------------------------------------------------
(* makeWithOverrides(args) *)

ExtraInputs ==
  {NoObj} \cup {MapObj(m) : m \in MapsOver({"a", "c"}, "extraSlot")}
ExtraSchemas ==
  {NoObj} \cup {MapObj(m) : m \in MapsOver({"foo", "baz"}, "extraSchema")}
NewOutputs == {NoObj, ListObj(<<>>), ListObj(<<"Y">>)}

\* the caller's argument objects; `schema` stands for args.config.schema,
\* NoObj for an absent args.config
AllOverrideArgObjects ==
  [namespace : {Undef, "ns1"}, name : {Undef, "n1"},
   attachTo : {Undef, "app/routes#routes"}, disabled : {Undef, "true", "false"},
   inputs : ExtraInputs, output : NewOutputs, schema : ExtraSchemas]

PlainArgIds(a) ==
  a.namespace = Undef /\ a.name = Undef /\ a.attachTo = Undef /\ a.disabled = Undef
PlainArgObjects(a) == a.inputs = NoObj /\ a.output = NoObj /\ a.schema = NoObj

\* every combination of the identity fields, and every combination of the
\* additional objects
OverrideArgObjects ==
  {a \in AllOverrideArgObjects : PlainArgIds(a) \/ PlainArgObjects(a)}

\* the args object as the call sees it: object fields hold addresses
ArgsOf(a) ==
  [namespace |-> a.namespace, name |-> a.name, attachTo |-> a.attachTo,
   disabled |-> a.disabled,
   inputs |-> RefIf(a.inputs, "args.inputs"),
   output |-> RefIf(a.output, "args.output"),
   config |-> RefIf(a.schema, "args.config")]

\* the heap once the caller has built its argument objects
WithArgs(h, a) ==
  [x \in Addrs |->
     CASE x \in BlueprintAddrs -> h[x]
       [] x = "args.inputs" /\ a.inputs # NoObj -> a.inputs
       [] x = "args.output" /\ a.output # NoObj -> a.output
       [] x = "args.config" /\ a.schema # NoObj -> ConfigObj("args.config.schema")
       [] x = "args.config.schema" /\ a.schema # NoObj -> a.schema
       [] OTHER -> Free]

\* makeWithOverrides with `inputs: options.inputs`
overrideInputsBaseOnly(h, o, args) == Spread(Deref(h, o.inputs))

\* makeWithOverrides with `inputs: { ...options.inputs, ...args.inputs }`
overrideInputsArgsLast(h, o, args) ==
  SpreadMerge(Spread(Deref(h, o.inputs)), Spread(Deref(h, args.inputs)))

\* inputs: { ...args.inputs, ...options.inputs }
overrideInputs(h, o, args) ==
  SpreadMerge(Spread(Deref(h, args.inputs)), Spread(Deref(h, o.inputs)))

\* output: args.output ?? options.output
overrideOutput(o, args) == Coalesce(args.output, o.output)

\* options.config || args.config
hasConfig(o, args) == o.config # Undef \/ args.config # Undef

\* makeWithOverrides with
\* `schema: { ...args.config?.schema, ...options.config?.schema }`
overrideSchemaBaseLast(h, o, args) ==
  SpreadMerge(Spread(SchemaOf(h, args.config)), Spread(SchemaOf(h, o.config)))

\* schema: { ...options.config?.schema, ...args.config?.schema }
overrideSchema(h, o, args) ==
  SpreadMerge(Spread(SchemaOf(h, o.config)), Spread(SchemaOf(h, args.config)))

\* the argument of createExtension in makeWithOverrides
overrideDeclaration(o, args) ==
  [kind |-> o.kind,
   namespace |-> Coalesce(args.namespace, o.namespace),
   name |-> Coalesce(args.name, o.name),
   attachTo |-> Coalesce(args.attachTo, o.attachTo),
   disabled |-> Coalesce(args.disabled, o.disabled),
   inputs |-> "new.inputs",
   output |-> overrideOutput(o, args),
   config |-> IF hasConfig(o, args) THEN "new.config" ELSE Undef,
   factory |-> [via |-> "makeWithOverrides", params |-> NoObj]]

\* makeWithOverrides with `inputs: Object.assign(options.inputs, args.inputs)`
\* in place of a fresh object literal: the blueprint's own map is written
overrideHeapAssign(h, o, args) ==
  [x \in Addrs |->
     CASE x = "new.inputs" -> MapObj(overrideInputs(h, o, args))
       [] x = "options.inputs" /\ o.inputs # Undef ->
            MapObj(SpreadMerge(Spread(h[o.inputs]), Spread(Deref(h, args.inputs))))
       [] x = "new.config" /\ hasConfig(o, args) -> ConfigObj("new.config.schema")
       [] x = "new.config.schema" /\ hasConfig(o, args) ->
            MapObj(overrideSchema(h, o, args))
       [] OTHER -> h[x]]

\* the object literals the call evaluates
overrideHeap(h, o, args) ==
  [x \in Addrs |->
     CASE x = "new.inputs" -> MapObj(overrideInputs(h, o, args))
       [] x = "new.config" /\ hasConfig(o, args) -> ConfigObj("new.config.schema")
       [] x = "new.config.schema" /\ hasConfig(o, args) ->
            MapObj(overrideSchema(h, o, args))
       [] OTHER -> h[x]]

makeWithOverrides(a) ==
  LET args == ArgsOf(a)
      h == WithArgs(heap, a)
  IN /\ call' = [op |-> "makeWithOverrides", args |-> args]
     /\ decl' = overrideDeclaration(options, args)
     /\ heap' = overrideHeap(h, options, args)
     /\ run' = NoRun
     /\ UNCHANGED options

-----------------------------------------------------------------------------
(* The factory closures, run by the framework with a runtime context *)

\* a ?? b on object values
CoalesceObj(a, b) == IF a = NoObj THEN b ELSE a

\* the context the framework resolves for a declaration: a config value for
\* every key of the declared schema, an input value for every declared slot
Contexts(h, d) ==
  {[node |-> "node", apis |-> "apis",
    config |-> MapObj([k \in DOMAIN Spread(SchemaOf(h, d.config)) |-> "c0"]),
    inputs |-> MapObj([k \in DOMAIN Spread(Deref(h, d.inputs)) |-> "in0"])]}

\* options.factory(params, context): the blueprint author's factory.  The
\* one modelled yields, for every declared output, a value that records all
\* the factory was given, so that two calls yield the same values only if
\* they were given the same params, config and inputs.
BaseFactory(h, o, params, context) ==
  [i \in 1..Len(h[o.output].l) |->
     [id |-> h[o.output].l[i],
      value |-> [params |-> params, config |-> context.config,
                 inputs |-> context.inputs]]]

\* ctx => options.factory(args.params, ctx)
makeFactory(h, o, closure, ctx) == BaseFactory(h, o, closure.params, ctx)

\* createExtensionDataContainer(values, declaredRefs)
createExtensionDataContainer(values, declaredRefs) ==
  [values |-> values, declared |-> declaredRefs]

\* resolveInputOverrides(declaredInputs, inputs, inputOverrides)
resolveInputOverrides(declaredInputs, inputs, inputOverrides) ==
  IF declaredInputs = NoObj \/ inputOverrides = NoObj
    THEN inputs
    ELSE MapObj([k \in DOMAIN inputs.m |->
                   IF k \in DOMAIN inputOverrides.m /\ k \in DOMAIN declaredInputs.m
                     THEN inputOverrides.m[k] ELSE inputs.m[k]])

\* innerContext?.config and innerContext?.inputs
InnerField(innerContext, f) ==
  IF innerContext = NoObj THEN NoObj ELSE innerContext[f]

\* the bound original factory with `innerParams ?? { n: 1 }`
originalParamsDefaulted(innerParams) ==
  CoalesceObj(innerParams, [t |-> "params", n |-> 1])

\* the params options.factory is called with by the bound original factory
originalParams(innerParams) == innerParams

\* the bound original factory with
\* `config: { ...config, ...innerContext?.config }`
originalConfigMerged(config, innerContext) ==
  MapObj(SpreadMerge(Spread(config), Spread(InnerField(innerContext, "config"))))

\* config: innerContext?.config ?? config
originalConfig(config, innerContext) ==
  CoalesceObj(InnerField(innerContext, "config"), config)

\* the bound original factory with `inputs: innerContext?.inputs`, the
\* ambient inputs forgotten
originalContextInnerInputs(h, o, ctx, innerContext) ==
  [node |-> ctx.node, apis |-> ctx.apis,
   config |-> originalConfig(ctx.config, innerContext),
   inputs |-> InnerField(innerContext, "inputs")]

\* the context options.factory is called with by the bound original factory
originalContext(h, o, ctx, innerContext) ==
  [node |-> ctx.node, apis |-> ctx.apis,
   config |-> originalConfig(ctx.config, innerContext),
   inputs |-> resolveInputOverrides(Deref(h, o.inputs), ctx.inputs,
                                    InnerField(innerContext, "inputs"))]

\* the bound original factory building its container with the declaration's
\* output list, `args.output ?? options.output`
originalDeclaredOverride(o, d) == d.output

\* the output list handed to createExtensionDataContainer
originalDeclared(o, d) == o.output

\* (innerParams, innerContext) => createExtensionDataContainer(
\*    options.factory(innerParams, {...}), options.output)
originalFactory(h, o, d, ctx, innerParams, innerContext) ==
  createExtensionDataContainer(
    BaseFactory(h, o, originalParams(innerParams),
                originalContext(h, o, ctx, innerContext)),
    originalDeclared(o, d))

\* the params and contexts an override factory may pass to originalFactory;
\* a call without params passes undefined
InnerParams == Params \cup {NoObj}
InnerContexts ==
  {NoObj} \cup
  [t : {"context"},
   config : {NoObj} \cup {MapObj(m) : m \in MapsOver(ConfigKeys, "c1")},
   inputs : {NoObj, MapObj([k \in {"a"} |-> "in1"])}]

\* the factory of a declaration made by make
runMakeFactory(ctx) ==
  /\ decl.factory.via = "make"
  /\ run' = [ran |-> TRUE, context |-> ctx,
             innerParams |-> NoObj, innerContext |-> NoObj,
             baseParams |-> decl.factory.params, baseContext |-> ctx,
             declared |-> Undef,
             out |-> makeFactory(heap, options, decl.factory, ctx)]
  /\ UNCHANGED <<options, heap, call, decl>>

\* the factory of a declaration made by makeWithOverrides, where args.factory
\* is (originalFactory, context) => originalFactory(innerParams, innerContext)
runOverrideFactory(ctx, innerParams, innerContext) ==
  /\ decl.factory.via = "makeWithOverrides"
  /\ LET container ==
           originalFactory(heap, options, decl, ctx, innerParams, innerContext)
     IN run' = [ran |-> TRUE, context |-> ctx,
                innerParams |-> innerParams, innerContext |-> innerContext,
                baseParams |-> originalParams(innerParams),
                baseContext |-> originalContext(heap, options, ctx, innerContext),
                declared |-> originalDeclared(options, decl),
                out |-> container.values]
  /\ UNCHANGED <<options, heap, call, decl>>

-----------------------------------------------------------------------------
(* The specifications *)

\* the declarations: every call of make and makeWithOverrides, in any order
Next ==
  \/ \E args \in MakeArgs : make(args)
  \/ \E a \in OverrideArgObjects : makeWithOverrides(a)

Spec == Init /\ [][Next]_vars

\* the factories: calls that override no identity field, and the runs of the
\* factory of the declaration they make
RunBlueprints ==
  {b \in AllBlueprints :
     /\ PlainIds(b) /\ b.kind = "page"
     /\ b.inputs \in {NoObj, MapObj([k \in {"a"} |-> "baseSlot"])}
     /\ b.schema # MapObj(EmptyMap)}

RunMakeArgs == {args \in MakeArgs : PlainArgIds(args)}

RunOverrideArgObjects ==
  {a \in AllOverrideArgObjects :
     /\ PlainArgIds(a)
     /\ a.inputs \in {NoObj, MapObj([k \in {"c"} |-> "extraSlot"])}
     /\ a.schema \in {NoObj, MapObj([k \in {"baz"} |-> "extraSchema"])}}

InitRun == \E b \in RunBlueprints : createExtensionBlueprint(b)

NextRun ==
  \/ \E args \in RunMakeArgs : make(args)
  \/ \E a \in RunOverrideArgObjects : makeWithOverrides(a)
  \/ \E ctx \in Contexts(heap, decl) : runMakeFactory(ctx)
  \/ \E ctx \in Contexts(heap, decl), innerParams \in InnerParams,
        innerContext \in InnerContexts :
          runOverrideFactory(ctx, innerParams, innerContext)

SpecRun == InitRun /\ [][NextRun]_vars

-----------------------------------------------------------------------------
(* Properties of the declarations, checked under Spec *)

Keys(h, ref) == DOMAIN Spread(Deref(h, ref))
SchemaKeys(h, configRef) == DOMAIN Spread(SchemaOf(h, configRef))
IdFields == {"namespace", "name", "attachTo", "disabled"}

\* C1: the declaration make(args) hands to createExtension has the
\* blueprint's kind, and each of namespace, name, attachTo and disabled is
\* the value args supplies when it supplies one (an explicit disabled = false
\* included) and the blueprint's own value when args omits it.
C1_MakeDeclaration ==
  call.op = "make" =>
    /\ decl.kind = options.kind
    /\ \A f \in IdFields :
         decl[f] = IF call.args[f] # Undef THEN call.args[f] ELSE options[f]

\* make was called with disabled = false on a blueprint disabled by default,
\* with a name and no namespace
C1_Witness ==
  /\ call.op = "make"
  /\ options.disabled = "true" /\ call.args.disabled = "false"
  /\ decl.disabled = "false"
  /\ call.args.namespace = Undef /\ decl.namespace = "ns0"
  /\ call.args.name = "n1" /\ decl.name = "n1"

\* C2: the input-slot names of the declaration makeWithOverrides hands to
\* createExtension are exactly the names of options.inputs together with the
\* names of args.inputs, either of which may be absent.
C2_InputSlotUnion ==
  call.op = "makeWithOverrides" =>
    /\ decl.inputs # Undef
    /\ Keys(heap, decl.inputs) =
         Keys(heap, options.inputs) \cup Keys(heap, call.args.inputs)

\* both sides declare slots the other does not
C2_Witness ==
  /\ call.op = "makeWithOverrides"
  /\ "b" \in Keys(heap, options.inputs) \ Keys(heap, call.args.inputs)
  /\ "c" \in Keys(heap, call.args.inputs) \ Keys(heap, options.inputs)
  /\ {"b", "c"} \subseteq Keys(heap, decl.inputs)

\* C3: the schema of the declaration makeWithOverrides hands to
\* createExtension has the keys of the base schema and of the override
\* schema; a key of the override schema carries the override's entry, also
\* when the base schema has the key, and any other key carries the base's.
\* With neither config present the declaration has no config.
C3_SchemaUnion ==
  call.op = "makeWithOverrides" =>
    IF options.config = Undef /\ call.args.config = Undef
      THEN decl.config = Undef
      ELSE LET schema == Spread(SchemaOf(heap, decl.config))
               base == Spread(SchemaOf(heap, options.config))
               extra == Spread(SchemaOf(heap, call.args.config))
           IN /\ decl.config # Undef
              /\ DOMAIN schema = (DOMAIN base) \cup (DOMAIN extra)
              /\ \A k \in DOMAIN schema :
                   schema[k] = IF k \in DOMAIN extra THEN extra[k] ELSE base[k]

\* "foo" is in both schemas with different entries, "bar" only in the base,
\* "baz" only in the override
C3_Witness ==
  /\ call.op = "makeWithOverrides"
  /\ SchemaKeys(heap, options.config) = {"foo", "bar"}
  /\ SchemaKeys(heap, call.args.config) = {"foo", "baz"}
  /\ SchemaOf(heap, options.config).m["foo"] # SchemaOf(heap, call.args.config).m["foo"]
  /\ SchemaOf(heap, decl.config).m["foo"] = SchemaOf(heap, call.args.config).m["foo"]

\* C10: for an input-slot name declared by both the blueprint and the
\* override, the declaration keeps the blueprint's slot declaration, while
\* for a config key declared by both it keeps the override's entry.
C10_BaseInputWins ==
  call.op = "makeWithOverrides" =>
    /\ \A k \in Keys(heap, options.inputs) \cap Keys(heap, call.args.inputs) :
         heap[decl.inputs].m[k] = heap[options.inputs].m[k]
    /\ \A k \in SchemaKeys(heap, options.config) \cap SchemaKeys(heap, call.args.config) :
         SchemaOf(heap, decl.config).m[k] = SchemaOf(heap, call.args.config).m[k]

\* "a" is declared by both sides with different slot declarations
C10_Witness ==
  /\ call.op = "makeWithOverrides"
  /\ "a" \in Keys(heap, options.inputs) \cap Keys(heap, call.args.inputs)
  /\ heap[options.inputs].m["a"] # heap[call.args.inputs].m["a"]
  /\ heap[decl.inputs].m["a"] = "baseSlot"

\* C9: no call of make or makeWithOverrides changes the options object or an
\* object it references, and the declaration every call hands to
\* createExtension carries options.kind.
C9_BlueprintImmutable ==
  [][/\ options' = options
     /\ \A a \in BlueprintAddrs : heap'[a] = heap[a]
     /\ decl'.kind = options.kind]_vars

\* a call that supplied additional inputs and schema entries to a blueprint
\* that declares inputs and a schema
C9_Witness ==
  /\ call.op = "makeWithOverrides"
  /\ options.inputs # Undef /\ options.config # Undef
  /\ Keys(heap, call.args.inputs) = {"a", "c"}
  /\ SchemaKeys(heap, call.args.config) # {}
  /\ decl.kind = options.kind

\* the addresses of the objects a declaration references
Reach(h, d) ==
  ({d.inputs, d.output, d.config} \ {Undef})
    \cup (IF d.config = Undef THEN {} ELSE {h[d.config].schema})

\* C6: two consecutive declarations made by make with different params
\* reference no common object.
C6_NoSharedObject ==
  [][(/\ decl.factory.via = "make" /\ decl'.factory.via = "make"
      /\ decl.factory.params # decl'.factory.params)
       => Reach(heap, decl) \cap Reach(heap', decl') = {}]_vars

-----------------------------------------------------------------------------
(* Properties of the factories, checked under SpecRun *)

OverrideRan == run.ran /\ decl.factory.via = "makeWithOverrides"

\* the params every value yielded by the base factory records
ParamsSeen == {run.out[i].value.params : i \in 1..Len(run.out)}

NoAdditions ==
  call.args.inputs = Undef /\ call.args.output = Undef /\ call.args.config = Undef

\* the values the factory of make({ params: p }) yields when run with ctx
MakeOutput(p, ctx) ==
  makeFactory(heap, options,
              makeDeclaration(options,
                [namespace |-> Undef, name |-> Undef, attachTo |-> Undef,
                 disabled |-> Undef, params |-> p]).factory,
              ctx)

InnerConfigGiven ==
  run.innerContext # NoObj /\ run.innerContext.config # NoObj

\* C7 as claimed: the config the base factory is given is the ambient config
\* with the inner context's config merged over it: ambient keys the inner
\* config does not name keep their ambient values.
C7_ConfigMerged ==
  OverrideRan =>
    IF InnerConfigGiven
      THEN run.baseContext.config.m =
             SpreadMerge(run.context.config.m, run.innerContext.config.m)
      ELSE run.baseContext.config = run.context.config

\* C7 as amended: the config the base factory is given is the inner
\* context's config as it stands when the inner context supplies one (ambient
\* keys it does not name are absent), and the ambient config otherwise.
C7_ConfigReplaced ==
  OverrideRan =>
    /\ run.baseContext.config =
         (IF InnerConfigGiven THEN run.innerContext.config ELSE run.context.config)
    /\ \A i \in 1..Len(run.out) : run.out[i].value.config = run.baseContext.config

\* the ambient config has foo and bar, the inner config names foo only, and
\* the base factory was given a config without bar
C7_Witness ==
  /\ OverrideRan /\ InnerConfigGiven
  /\ {"foo", "bar"} \subseteq DOMAIN run.context.config.m
  /\ DOMAIN run.innerContext.config.m = {"foo"}
  /\ DOMAIN run.baseContext.config.m = {"foo"}
  /\ run.baseContext.config.m["foo"] = "c1"

\* C8: the declaration of makeWithOverrides declares args.output when the
\* call supplies one and options.output otherwise, and the bound original
\* factory builds its container with options.output in either case.
C8_OutputLists ==
  /\ call.op = "makeWithOverrides" =>
       decl.output = (IF call.args.output # Undef THEN call.args.output
                                                  ELSE options.output)
  /\ OverrideRan =>
       /\ run.declared = options.output
       /\ call.args.output # Undef => run.declared # decl.output

\* the call supplied an output list other than the blueprint's and the bound
\* original factory was called
C8_Witness ==
  /\ OverrideRan
  /\ call.args.output # Undef
  /\ heap[decl.output] # heap[options.output]
  /\ run.declared = options.output
  /\ Len(run.out) > 0

====
